---- MODULE Spec2Model ----
(***************************************************************************)
(* The constant-table resolver of terminal-dex-scraper:                    *)
(* _ItemConstantsParser of gen_1/red_and_blue/scrapers/item_constants.py.  *)
(*                                                                         *)
(* A line is a sequence of whitespace-separated tokens; a token is a       *)
(* non-empty sequence of atoms with no whitespace between them.  An atom   *)
(* is a maximal run of characters free of whitespace, ';', '+' and '-'     *)
(* (a word, a run of decimal digits, or '$' followed by hexadecimal        *)
(* digits), or one of the characters ';', '+', '-'.                        *)
(*                                                                         *)
(* Python's "T | None" is a sequence of length at most one: None is <<>>   *)
(* and a value x is <<x>>.  A dict is a function on its set of keys.       *)
(***************************************************************************)
EXTENDS Integers, Sequences, FiniteSets, TLC

VARIABLES
    vocab,              \* the lines the input file is written with
    retain,             \* whether the lines consumed so far are recorded
    lines,              \* self.lines[:i] when retain, else <<>>
    i,                  \* number of lines of self.lines consumed by parse
    raw_line,           \* the loop variable of parse
    constants, value_to_name, aliases, pending_aliases, machine_move_map,
    machine_map, tmnum_by_value, special_values, numeric_defines,
    const_value, inside_macro,
    exc,                \* the exception parse has raised, if any
    pc,                 \* "parsing", "failed" (parse raised), "done" (parse returned)
    result              \* the tuple parse returned, if any

vars == <<vocab, retain, lines, i, raw_line, constants, value_to_name, aliases,
          pending_aliases, machine_move_map, machine_map, tmnum_by_value,
          special_values, numeric_defines, const_value, inside_macro, exc, pc,
          result>>

-----------------------------------------------------------------------------
(* Optional values and dicts *)

None == <<>>
Some(x) == <<x>>

Get(d, k) == IF k \in DOMAIN d THEN Some(d[k]) ELSE None
Put(d, k, v) == [x \in (DOMAIN d) \cup {k} |-> IF x = k THEN v ELSE d[x]]
EmptyDict == <<>>

Range(s) == {s[n] : n \in DOMAIN s}

Max(S) == CHOOSE x \in S : \A y \in S : y <= x
Min(S) == CHOOSE x \in S : \A y \in S : x <= y

-----------------------------------------------------------------------------
(* Atoms, tokens and their text *)

Word(s) == [k |-> "word", s |-> s, d |-> <<>>]
Dec(d) == [k |-> "dec", s |-> "", d |-> d]
Hex(d) == [k |-> "hex", s |-> "$", d |-> d]
Plus == [k |-> "op", s |-> "+", d |-> <<>>]
Minus == [k |-> "op", s |-> "-", d |-> <<>>]
Semi == [k |-> "semi", s |-> ";", d |-> <<>>]

DigitChar ==
    <<"0", "1", "2", "3", "4", "5", "6", "7", "8", "9", "A", "B", "C", "D", "E", "F">>

RECURSIVE DigitsText(_)
DigitsText(d) ==
    IF d = <<>> THEN "" ELSE DigitChar[Head(d) + 1] \o DigitsText(Tail(d))

AtomText(a) ==
    CASE a.k = "dec" -> DigitsText(a.d)
      [] a.k = "hex" -> "$" \o DigitsText(a.d)
      [] OTHER -> a.s

RECURSIVE TokenText(_)
TokenText(t) == IF t = <<>> THEN "" ELSE AtomText(Head(t)) \o TokenText(Tail(t))

\* " ".join(tokens)
RECURSIVE JoinText(_)
JoinText(ts) ==
    IF ts = <<>> THEN ""
    ELSE IF Len(ts) = 1 THEN TokenText(ts[1])
    ELSE TokenText(ts[1]) \o " " \o JoinText(Tail(ts))

\* line.split(): the text of each whitespace-separated token
Split(line) == [n \in 1..Len(line) |-> TokenText(line[n])]

RECURSIVE Flatten(_)
Flatten(ts) == IF ts = <<>> THEN <<>> ELSE Head(ts) \o Flatten(Tail(ts))

\* int(digits, base)
RECURSIVE IntOf(_, _)
IntOf(d, base) ==
    IF d = <<>> THEN 0 ELSE IntOf(SubSeq(d, 1, Len(d) - 1), base) * base + d[Len(d)]

\* str(n) for n >= 0
RECURSIVE NatText(_)
NatText(n) ==
    IF n < 10 THEN DigitChar[n + 1]
    ELSE NatText(n \div 10) \o DigitChar[(n % 10) + 1]

\* f"{n:02d}"
Format02d(n) ==
    IF n < 0 THEN "-" \o NatText(-n)
    ELSE IF n < 10 THEN "0" \o NatText(n)
    ELSE NatText(n)

\* The endings a word of the input may have after a directive keyword.
Tails == {"", "_x"}

\* word.startswith(prefix), for a prefix free of whitespace, ';', '+', '-'
WordStartsWith(word, prefix) == \E t \in Tails : word = prefix \o t

\* line.startswith(prefix) for such a prefix: it lies within the first atom
StartsWith(line, prefix) ==
    /\ line # <<>>
    /\ line[1][1].k = "word"
    /\ WordStartsWith(line[1][1].s, prefix)

\* line.startswith(keyword + " "): the first token is the keyword and
\* another token follows it
StartsWithSpaced(line, keyword) ==
    /\ Len(line) >= 2
    /\ TokenText(line[1]) = keyword

-----------------------------------------------------------------------------
(* The input: lines of constants/item_constants.asm *)

W(s) == <<Word(s)>>
D(n) == <<Dec(<<n>>)>>
Line1(a) == <<W(a)>>
Line2(a, b) == <<W(a), W(b)>>

Blank == <<>>
Comment == <<<<Semi>>, W("items")>>
ConstDef == Line1("const_def")
ConstDefArg == <<W("const_def"), D(1)>>
ConstSkip == Line1("const_skip")
ConstNext(e) == <<W("const_next")>> \o e
ConstNextBare == Line1("const_next")
ConstNextTail == <<W("const_next_x"), D(2)>>
Const(name) == Line2("const", name)
ConstBare == Line1("const")
ConstCommented(name) == <<W("const"), <<Semi>>, W(name)>>
AddTm(move) == Line2("add_tm", move)
AddHm(move) == Line2("add_hm", move)
AddTmBare == Line1("add_tm")
AddHmBare == Line1("add_hm")
MacroBegin == Line2("MACRO", "add_tm")
MacroEnd == Line1("ENDM")
AssertLine == <<W("ASSERT"), W("NUM_TMS"), W("=="), D(1)>>
DefSet(name, e) == <<W("DEF"), W(name), W("=")>> \o e
DefAdd(name, e) == <<W("DEF"), W(name), <<Plus, Word("=")>>>> \o e
DefEqu(name, e) == <<W("DEF"), W(name), W("EQU")>> \o e

\* Expressions, as sequences of whitespace-separated tokens
Lit(n) == <<D(n)>>
HexLit(d) == <<<<Hex(d)>>>>
Sym(name) == <<W(name)>>
Packed(a, op, b) == <<<<a, op, b>>>>
Spaced(a, op, b) == <<<<a>>, <<op>>, <<b>>>>

\* the table, its counter, its aliases and what fails a parse
TableLines ==
    {Comment, ConstNextBare, ConstNextTail, ConstBare, ConstCommented("FOO"),
     AssertLine, MacroBegin, MacroEnd, ConstDef,
     Const("FOO"), Const("BAR"),
     ConstNext(Lit(0)), ConstNext(Sym("FOO")), ConstNext(Sym("NOPE")),
     ConstNext(Packed(Dec(<<0>>), Minus, Dec(<<1>>))),
     ConstNext(Spaced(Word("BAR"), Plus, Dec(<<1>>))),
     DefEqu("ALIAS_FOO", Sym("FOO")), DefEqu("ALIAS_LATER", Lit(2)),
     DefEqu("ALIAS_FOO", Packed(Word("FOO"), Plus, Dec(<<0>>))),
     AddTm("PSYCHIC"), AddHm("FLASH"), AddTmBare, AddHmBare,
     DefSet("__tmhm_value__", Lit(1)), DefSet("NUM_TMS", Lit(1))}

\* deferred and immediate alias resolution
AliasLines ==
    {ConstDef, ConstNext(Lit(5)), Const("FOO"), Const("QUX"),
     ConstNext(Packed(Dec(<<0>>), Minus, Dec(<<2>>))),
     DefEqu("ALIAS_LATER", Lit(5)), DefEqu("ALIAS_FOO", Sym("FOO"))}

\* the numbering of the machines
MachineLines ==
    {ConstDef, Const("FOO"),
     DefSet("__tmhm_value__", Lit(1)), DefSet("NUM_TMS", Lit(1)),
     AddTm("PSYCHIC"), AddHm("FLASH")}

\* the slots of the machines and the marker of the unused slot
SlotLines ==
    {ConstDef, DefSet("__tmhm_value__", Lit(1)), AddTm("PSYCHIC"),
     DefSet("UNUSED_TMNUM", Lit(1)), DefSet("UNUSED_TMNUM", Lit(3))}

\* runs of const lines and macro blocks
BlockLines == {MacroBegin, MacroEnd, ConstDef, Const("FOO"), Const("BAR")}

\* Expressions of one to three terms, '+' and '-' between them, written
\* without and with whitespace around the operators, and with a leading '-'.
Terms == {Dec(<<2>>), Dec(<<1, 0>>), Hex(<<1, 0>>), Hex(<<10>>), Word("FOO")}
FewTerms == {Dec(<<2>>), Hex(<<1, 0>>), Word("BAR")}
Operators == {Plus, Minus}

Expressions ==
    {<<<<a>>>> : a \in Terms}
        \cup {<<<<Minus, a>>>> : a \in Terms}
        \cup {Packed(a, op, b) : a \in Terms, op \in Operators, b \in Terms}
        \cup {Spaced(a, op, b) : a \in Terms, op \in Operators, b \in Terms}
        \cup {<<<<a>>, <<op1>>, <<b, op2, c>>>> :
                  a \in FewTerms, op1 \in Operators, b \in FewTerms,
                  op2 \in Operators, c \in FewTerms}

ExpressionLines == {ConstNext(e) : e \in Expressions}

\* The lines read before the expressions: they define FOO as 3 and BAR as 4.
DefiningLines == <<ConstDef, ConstNext(Lit(3)), Const("FOO"), Const("BAR")>>

\* DEF lines that set and increment numeric defines, among them the
\* marker of the unused slot and the define of the counter
DefineLines ==
    {ConstDef, Const("FOO"),
     DefSet("FOO", Lit(5)), DefAdd("FOO", Lit(2)),
     DefAdd("FOO", Spaced(Dec(<<1>>), Plus, Dec(<<2>>))),
     DefAdd("FOO", Packed(Dec(<<1>>), Plus, Dec(<<2>>))),
     DefSet("UNUSED_TMNUM", Lit(1)), DefSet("const_value", Lit(5))}

\* machines of two moves, the defines they read, and a reset of the
\* machine-value counter
MachineryLines ==
    {ConstDef, DefSet("__tmhm_value__", Lit(1)), DefSet("NUM_TMS", Lit(1)),
     DefAdd("NUM_TMS", Lit(1)),
     AddTm("PSYCHIC"), AddTm("FLASH"), AddHm("FLASH")}

AllLines ==
    TableLines \cup AliasLines \cup MachineLines \cup SlotLines \cup BlockLines
        \cup ExpressionLines \cup Range(DefiningLines) \cup DefineLines
        \cup MachineryLines

\* every string h for which h + "_TMNUM" can be a name of the parse
Stems ==
    LET texts == UNION {Range(Split(line)) : line \in AllLines}
    IN  {"", "UNUSED", "HM", "TM"} \cup texts
        \cup {"HM_" \o t : t \in texts} \cup {"TM_" \o t : t \in texts}

-----------------------------------------------------------------------------
(* The parser object *)

Exception(type, arg) == [type |-> type, arg |-> arg]

Raise(p, type, arg) == [p EXCEPT !.exc = Some(Exception(type, arg))]
\* Raised when the loop of parse catches whatever a handler raises
SwallowedRaised(p) == FALSE
Raised(p) == p.exc # None

NewParser ==
    [constants |-> <<>>, value_to_name |-> EmptyDict, aliases |-> EmptyDict,
     pending_aliases |-> <<>>, machine_move_map |-> EmptyDict,
     machine_map |-> EmptyDict, tmnum_by_value |-> EmptyDict,
     special_values |-> EmptyDict, numeric_defines |-> EmptyDict,
     const_value |-> None, inside_macro |-> FALSE, exc |-> None]

Self ==
    [constants |-> constants, value_to_name |-> value_to_name,
     aliases |-> aliases, pending_aliases |-> pending_aliases,
     machine_move_map |-> machine_move_map, machine_map |-> machine_map,
     tmnum_by_value |-> tmnum_by_value, special_values |-> special_values,
     numeric_defines |-> numeric_defines, const_value |-> const_value,
     inside_macro |-> inside_macro, exc |-> exc]

\* list[index] = value, with Python's negative indices; IndexError out of range
ListIndex(list, index) ==
    IF 0 <= index /\ index < Len(list) THEN Some(index + 1)
    ELSE IF index < 0 /\ -index <= Len(list) THEN Some(Len(list) + index + 1)
    ELSE None

_strip_comments(line) ==
    LET F[n \in 0..Len(line)] ==
            \* the tokens of line[1..n] that precede the first ';'
            IF n = 0 THEN [cut |-> FALSE, out |-> <<>>]
            ELSE LET prev == F[n - 1]
                     tok == line[n]
                     at == {m \in 1..Len(tok) : tok[m] = Semi}
                 IN  IF prev.cut THEN prev
                     ELSE IF at = {} THEN [cut |-> FALSE, out |-> Append(prev.out, tok)]
                     ELSE IF Min(at) = 1 THEN [cut |-> TRUE, out |-> prev.out]
                     ELSE [cut |-> TRUE,
                           out |-> Append(prev.out, SubSeq(tok, 1, Min(at) - 1))]
    IN  F[Len(line)].out

_ensure_length(p, index) ==
    IF index >= Len(p.constants)
    THEN [p EXCEPT !.constants =
              @ \o [n \in 1..(index + 1 - Len(p.constants)) |-> None]]
    ELSE p

\* name.endswith(suffix)
EndsWith(name, suffix) == \E h \in Stems : name = h \o suffix

\* _set_numeric_define without the exemption of the names ending in _TMNUM
Unexempted_set_numeric_define(p, name, value, track_special) ==
    LET q == [p EXCEPT !.numeric_defines = Put(@, name, value)]
    IN  IF track_special
        THEN [q EXCEPT !.special_values = Put(@, name, value)]
        ELSE q

_set_numeric_define(p, name, value, track_special) ==
    LET q == [p EXCEPT !.numeric_defines = Put(@, name, value)]
    IN  IF track_special /\ ~EndsWith(name, "_TMNUM")
        THEN [q EXCEPT !.special_values = Put(@, name, value)]
        ELSE q

_set_const_value(p, value) ==
    [p EXCEPT !.const_value = Some(value),
              !.numeric_defines = Put(@, "const_value", value)]

\* the loop of _resolve_pending_aliases over pending_aliases[1..n]
RECURSIVE ResolveLoop(_, _, _)
ResolveLoop(p, pending, remaining) ==
    IF pending = <<>> THEN [p EXCEPT !.pending_aliases = remaining]
    ELSE LET alias_name == Head(pending)[1]
             alias_value == Head(pending)[2]
             canonical == Get(p.value_to_name, alias_value)
         IN  IF canonical = None
             THEN ResolveLoop(p, Tail(pending), Append(remaining, Head(pending)))
             ELSE ResolveLoop([p EXCEPT !.aliases = Put(@, alias_name, canonical[1])],
                              Tail(pending), remaining)

_resolve_pending_aliases(p) ==
    IF p.pending_aliases = <<>> THEN p
    ELSE ResolveLoop(p, p.pending_aliases, <<>>)

\* _register_alias parking every alias, resolved or not
Parking_register_alias(p, name, value) ==
    LET q == _set_numeric_define(p, name, value, FALSE)
    IN  [q EXCEPT !.pending_aliases = Append(@, <<name, value>>)]

_register_alias(p, name, value) ==
    LET q == _set_numeric_define(p, name, value, FALSE)
        canonical == Get(q.value_to_name, value)
    IN  IF canonical # None
        THEN [q EXCEPT !.aliases = Put(@, name, canonical[1])]
        ELSE [q EXCEPT !.pending_aliases = Append(@, <<name, value>>)]

-----------------------------------------------------------------------------
(* Expressions.  An evaluation yields [exc, value]: the exception it *)
(* raised, if any, or else the value it returned.                    *)

Returned(v) == [exc |-> None, value |-> v]
Threw(type, arg) == [exc |-> Some(Exception(type, arg)), value |-> 0]

\* _token_to_value reading a name that is not defined as 0
DefaultZero_token_to_value(p, token, expression) ==
    IF token.k = "hex"
    THEN IF token.d = <<>>
         THEN Threw("ValueError", "invalid literal for int() with base 16: ''")
         ELSE Returned(IntOf(token.d, 16))
    ELSE IF token.k = "dec" THEN Returned(IntOf(token.d, 10))
    ELSE IF AtomText(token) \in DOMAIN p.numeric_defines
    THEN Returned(p.numeric_defines[AtomText(token)])
    ELSE Returned(0)

_token_to_value(p, token, expression) ==
    IF token.k = "hex"
    THEN IF token.d = <<>>
         THEN Threw("ValueError", "invalid literal for int() with base 16: ''")
         ELSE Returned(IntOf(token.d, 16))
    ELSE IF token.k = "dec" THEN Returned(IntOf(token.d, 10))
    ELSE IF AtomText(token) \in DOMAIN p.numeric_defines
    THEN Returned(p.numeric_defines[AtomText(token)])
    ELSE Threw("ValueError",
               "Unknown token '" \o AtomText(token) \o "' in expression '"
                   \o expression \o "'.")

\* the loop of _evaluate_expression over the tokens left to read
RECURSIVE EvaluateLoop(_, _, _, _, _)
EvaluateLoop(p, tokens, total, operator, expression) ==
    IF tokens = <<>> THEN Returned(total)
    ELSE LET token == Head(tokens) IN
         IF token.k = "op"
         THEN EvaluateLoop(p, Tail(tokens), total, token.s, expression)
         ELSE LET r == _token_to_value(p, token, expression) IN
              IF r.exc # None THEN r
              ELSE EvaluateLoop(p, Tail(tokens),
                                IF operator = "+" THEN total + r.value
                                ELSE total - r.value,
                                operator, expression)

\* expression is the sequence of whitespace-separated tokens of the string:
\* replacing '+' and '-' by themselves between spaces and splitting yields
\* their atoms
\* _evaluate_expression adding every term, whatever its operator
Adding_evaluate_expression(p, expression) ==
    EvaluateLoop(p, SelectSeq(Flatten(expression), LAMBDA a : a # Minus),
                 0, "+", JoinText(expression))

_evaluate_expression(p, expression) ==
    EvaluateLoop(p, Flatten(expression), 0, "+", JoinText(expression))

-----------------------------------------------------------------------------
(* The directive handlers *)

\* _handle_macro_tokens whose ENDM leaves the flag as it is
Unclosing_handle_macro_tokens(p, line) ==
    IF StartsWith(line, "MACRO")
    THEN [handled |-> TRUE, p |-> [p EXCEPT !.inside_macro = TRUE]]
    ELSE IF StartsWith(line, "ENDM")
    THEN [handled |-> TRUE, p |-> p]
    ELSE [handled |-> FALSE, p |-> p]

_handle_macro_tokens(p, line) ==
    IF StartsWith(line, "MACRO")
    THEN [handled |-> TRUE, p |-> [p EXCEPT !.inside_macro = TRUE]]
    ELSE IF StartsWith(line, "ENDM")
    THEN [handled |-> TRUE, p |-> [p EXCEPT !.inside_macro = FALSE]]
    ELSE [handled |-> FALSE, p |-> p]

_handle_const_def(p) == _ensure_length(_set_const_value(p, 0), 0)

_handle_const_next(p, line) ==
    IF Len(line) < 2
    THEN Raise(p, "ValueError", "not enough values to unpack (expected 2, got 1)")
    ELSE LET value_str == Tail(line)
             next_value == _evaluate_expression(p, value_str)
         IN  IF next_value.exc # None THEN [p EXCEPT !.exc = next_value.exc]
             ELSE _set_const_value(_ensure_length(p, next_value.value),
                                   next_value.value)

\* DeclareAtCounter starting the counter at 0 when it is unset
DefaultStartDeclareAtCounter(p, name, message) ==
    LET value == IF p.const_value = None THEN 0 ELSE p.const_value[1]
        p1 == _ensure_length(p, value)
        at == ListIndex(p1.constants, value)
    IN  IF at = None
        THEN Raise(p1, "IndexError", "list assignment index out of range")
        ELSE LET p2 == [p1 EXCEPT !.constants[at[1]] = Some(name),
                                  !.value_to_name = Put(@, value, name)]
                 p3 == _set_numeric_define(p2, name, value, FALSE)
                 p4 == _set_const_value(p3, value + 1)
             IN  _resolve_pending_aliases(p4)

\* The statements the three declaring handlers share: _handle_const lines
\* 106-114 with name and message, as lines 119-127 and 147-155.
DeclareAtCounter(p, name, message) ==
    IF p.const_value = None THEN Raise(p, "ValueError", message)
    ELSE LET value == p.const_value[1]
             p1 == _ensure_length(p, value)
             at == ListIndex(p1.constants, value)
         IN  IF at = None
             THEN Raise(p1, "IndexError", "list assignment index out of range")
             ELSE LET p2 == [p1 EXCEPT !.constants[at[1]] = Some(name),
                                       !.value_to_name = Put(@, value, name)]
                      p3 == _set_numeric_define(p2, name, value, FALSE)
                      p4 == _set_const_value(p3, value + 1)
                  IN  _resolve_pending_aliases(p4)

\* _handle_const leaving the counter where it was
NoAdvance_handle_const(p, line) ==
    LET parts == Split(line) IN
    IF Len(parts) < 2 THEN Raise(p, "IndexError", "list index out of range")
    ELSE LET q == DeclareAtCounter(p, parts[2],
                      "const_def must appear before const declarations.")
         IN  IF Raised(q) THEN q
             ELSE _set_const_value(q, p.const_value[1])

_handle_const(p, line) ==
    LET parts == Split(line) IN
    IF Len(parts) < 2 THEN Raise(p, "IndexError", "list index out of range")
    ELSE DeclareAtCounter(p, parts[2],
                          "const_def must appear before const declarations.")

\* The statements _handle_add_hm and _handle_add_tm share after the
\* declaration: lines 135-142 as lines 159-165.
RecordMachine(p, item_name, machine_move_name, move_name, tmhm_value) ==
    LET p1 == [p EXCEPT !.machine_move_map = Put(@, machine_move_name, move_name),
                        !.machine_map = Put(@, item_name, machine_move_name)]
        tmnum_name == move_name \o "_TMNUM"
        p2 == _set_numeric_define(p1, tmnum_name, tmhm_value, FALSE)
        p3 == [p2 EXCEPT !.tmnum_by_value = Put(@, tmhm_value, tmnum_name)]
    IN  _set_numeric_define(p3, "__tmhm_value__", tmhm_value + 1, TRUE)

\* _handle_add_hm with a counter of its own for the HMs: it records the
\* machine under the relative HM index.
SeparateHmCounter_handle_add_hm(p, line) ==
    LET parts == Split(line) IN
    IF Len(parts) < 2 THEN Raise(p, "IndexError", "list index out of range")
    ELSE LET move_name == parts[2]
             hm_item_name == "HM_" \o move_name
             p1 == DeclareAtCounter(p, hm_item_name,
                                    "const_value is not initialized before add_hm.")
         IN  IF Raised(p1) THEN p1
             ELSE IF "NUM_TMS" \notin DOMAIN p1.numeric_defines
             THEN Raise(p1, "KeyError", "NUM_TMS")
             ELSE IF "__tmhm_value__" \notin DOMAIN p1.numeric_defines
             THEN Raise(p1, "KeyError", "__tmhm_value__")
             ELSE LET num_tms == p1.numeric_defines["NUM_TMS"]
                      tmhm_value == p1.numeric_defines["__tmhm_value__"]
                      hm_index == tmhm_value - num_tms
                      p2 == _set_numeric_define(p1, "HM_VALUE", hm_index, TRUE)
                      machine_move_name == "HM" \o Format02d(hm_index) \o "_MOVE"
                  IN  RecordMachine(p2, hm_item_name, machine_move_name,
                                    move_name, hm_index)

\* _handle_add_hm publishing the machine-value counter itself as the HM index
AbsoluteIndex_handle_add_hm(p, line) ==
    LET parts == Split(line) IN
    IF Len(parts) < 2 THEN Raise(p, "IndexError", "list index out of range")
    ELSE LET move_name == parts[2]
             hm_item_name == "HM_" \o move_name
             p1 == DeclareAtCounter(p, hm_item_name,
                                    "const_value is not initialized before add_hm.")
         IN  IF Raised(p1) THEN p1
             ELSE IF "NUM_TMS" \notin DOMAIN p1.numeric_defines
             THEN Raise(p1, "KeyError", "NUM_TMS")
             ELSE IF "__tmhm_value__" \notin DOMAIN p1.numeric_defines
             THEN Raise(p1, "KeyError", "__tmhm_value__")
             ELSE LET tmhm_value == p1.numeric_defines["__tmhm_value__"]
                      hm_index == tmhm_value
                      p2 == _set_numeric_define(p1, "HM_VALUE", hm_index, TRUE)
                      machine_move_name == "HM" \o Format02d(hm_index) \o "_MOVE"
                  IN  RecordMachine(p2, hm_item_name, machine_move_name,
                                    move_name, tmhm_value)

\* _handle_add_hm recording the slot name under the relative HM index
RelativeSlot_handle_add_hm(p, line) ==
    LET parts == Split(line) IN
    IF Len(parts) < 2 THEN Raise(p, "IndexError", "list index out of range")
    ELSE LET move_name == parts[2]
             hm_item_name == "HM_" \o move_name
             p1 == DeclareAtCounter(p, hm_item_name,
                                    "const_value is not initialized before add_hm.")
         IN  IF Raised(p1) THEN p1
             ELSE IF "NUM_TMS" \notin DOMAIN p1.numeric_defines
             THEN Raise(p1, "KeyError", "NUM_TMS")
             ELSE IF "__tmhm_value__" \notin DOMAIN p1.numeric_defines
             THEN Raise(p1, "KeyError", "__tmhm_value__")
             ELSE LET num_tms == p1.numeric_defines["NUM_TMS"]
                      tmhm_value == p1.numeric_defines["__tmhm_value__"]
                      hm_index == tmhm_value - num_tms
                      p2 == _set_numeric_define(p1, "HM_VALUE", hm_index, TRUE)
                      machine_move_name == "HM" \o Format02d(hm_index) \o "_MOVE"
                      p3 == RecordMachine(p2, hm_item_name, machine_move_name,
                                          move_name, hm_index)
                  IN  _set_numeric_define(p3, "__tmhm_value__", tmhm_value + 1, TRUE)

_handle_add_hm(p, line) ==
    LET parts == Split(line) IN
    IF Len(parts) < 2 THEN Raise(p, "IndexError", "list index out of range")
    ELSE LET move_name == parts[2]
             hm_item_name == "HM_" \o move_name
             p1 == DeclareAtCounter(p, hm_item_name,
                                    "const_value is not initialized before add_hm.")
         IN  IF Raised(p1) THEN p1
             ELSE IF "NUM_TMS" \notin DOMAIN p1.numeric_defines
             THEN Raise(p1, "KeyError", "NUM_TMS")
             ELSE IF "__tmhm_value__" \notin DOMAIN p1.numeric_defines
             THEN Raise(p1, "KeyError", "__tmhm_value__")
             ELSE LET num_tms == p1.numeric_defines["NUM_TMS"]
                      tmhm_value == p1.numeric_defines["__tmhm_value__"]
                      hm_index == tmhm_value - num_tms
                      p2 == _set_numeric_define(p1, "HM_VALUE", hm_index, TRUE)
                      machine_move_name == "HM" \o Format02d(hm_index) \o "_MOVE"
                  IN  RecordMachine(p2, hm_item_name, machine_move_name,
                                    move_name, tmhm_value)

\* _handle_add_tm starting the machine-value counter at 1 when no DEF has
\* defined it
DefaultStart_handle_add_tm(p, line) ==
    LET parts == Split(line) IN
    IF Len(parts) < 2 THEN Raise(p, "IndexError", "list index out of range")
    ELSE LET move_name == parts[2]
             tm_item_name == "TM_" \o move_name
             p1 == DeclareAtCounter(p, tm_item_name,
                                    "const_value is not initialized before add_tm.")
         IN  IF Raised(p1) THEN p1
             ELSE LET tmhm_value == IF "__tmhm_value__" \in DOMAIN p1.numeric_defines
                                    THEN p1.numeric_defines["__tmhm_value__"]
                                    ELSE 1
                      machine_move_name == "TM" \o Format02d(tmhm_value) \o "_MOVE"
                  IN  RecordMachine(p1, tm_item_name, machine_move_name,
                                    move_name, tmhm_value)

_handle_add_tm(p, line) ==
    LET parts == Split(line) IN
    IF Len(parts) < 2 THEN Raise(p, "IndexError", "list index out of range")
    ELSE LET move_name == parts[2]
             tm_item_name == "TM_" \o move_name
             p1 == DeclareAtCounter(p, tm_item_name,
                                    "const_value is not initialized before add_tm.")
         IN  IF Raised(p1) THEN p1
             ELSE IF "__tmhm_value__" \notin DOMAIN p1.numeric_defines
             THEN Raise(p1, "KeyError", "__tmhm_value__")
             ELSE LET tmhm_value == p1.numeric_defines["__tmhm_value__"]
                      machine_move_name == "TM" \o Format02d(tmhm_value) \o "_MOVE"
                  IN  RecordMachine(p1, tm_item_name, machine_move_name,
                                    move_name, tmhm_value)

\* lines 180-182, as lines 194-196
DefineSpecial(p, name, value) ==
    LET q == _set_numeric_define(p, name, value, TRUE)
    IN  IF name = "UNUSED_TMNUM"
        THEN [q EXCEPT !.tmnum_by_value = Put(@, value, name)]
        ELSE q

_handle_def(p, line) ==
    LET parts == Split(line) IN
    IF Len(parts) < 2 THEN Raise(p, "IndexError", "list index out of range")
    ELSE
    LET name == parts[2] IN
    IF "+=" \in Range(parts)
    THEN LET increment == _evaluate_expression(p, <<line[Len(line)]>>) IN
         IF increment.exc # None THEN [p EXCEPT !.exc = increment.exc]
         ELSE IF name \notin DOMAIN p.numeric_defines
         THEN Raise(p, "KeyError", name)
         ELSE _set_numeric_define(p, name,
                                  p.numeric_defines[name] + increment.value, TRUE)
    ELSE IF "=" \in Range(parts)
    THEN LET value == _evaluate_expression(p, SubSeq(line, 4, Len(line))) IN
         IF value.exc # None THEN [p EXCEPT !.exc = value.exc]
         ELSE DefineSpecial(p, name, value.value)
    ELSE IF "EQU" \in Range(parts)
    THEN LET expression == SubSeq(line, 4, Len(line))
             value == _evaluate_expression(p, expression)
             tokens == Split(expression)
             is_single_token == Len(tokens) = 1
         IN  IF value.exc # None THEN [p EXCEPT !.exc = value.exc]
             ELSE LET canonical == Get(p.value_to_name, value.value) IN
                  IF is_single_token /\ canonical # None /\ canonical[1] = tokens[1]
                  THEN _register_alias(p, name, value.value)
                  ELSE DefineSpecial(p, name, value.value)
    ELSE p

\* The branch of _dispatch_line a line takes: the first that matches.
Directive(line) ==
    IF JoinText(line) = "const_def" THEN "const_def"
    ELSE IF StartsWith(line, "const_next") THEN "const_next"
    ELSE IF StartsWithSpaced(line, "const") THEN "const"
    ELSE IF StartsWith(line, "add_hm") THEN "add_hm"
    ELSE IF StartsWith(line, "add_tm") THEN "add_tm"
    ELSE IF StartsWith(line, "ASSERT") THEN "ASSERT"
    ELSE IF StartsWithSpaced(line, "DEF") THEN "DEF"
    ELSE "none"

\* The way a raw line takes through the body of the loop of parse (lines
\* 42-49) and through _dispatch_line.
\* Route without the test of inside_macro at line 47
MacroBlindRoute(p, raw) ==
    LET line == _strip_comments(raw) IN
    IF line = <<>> THEN "blank"
    ELSE IF _handle_macro_tokens(p, line).handled THEN "macro"
    ELSE Directive(line)

Route(p, raw) ==
    LET line == _strip_comments(raw) IN
    IF line = <<>> THEN "blank"
    ELSE IF _handle_macro_tokens(p, line).handled THEN "macro"
    ELSE IF p.inside_macro THEN "inside_macro"
    ELSE Directive(line)

\* The body of the loop of parse, lines 42-49, with _dispatch_line.
LoopBody(p, raw) ==
    LET line == _strip_comments(raw)
        route == Route(p, raw)
    IN  CASE route = "macro" -> _handle_macro_tokens(p, line).p
          [] route = "const_def" -> _handle_const_def(p)
          [] route = "const_next" -> _handle_const_next(p, line)
          [] route = "const" -> _handle_const(p, line)
          [] route = "add_hm" -> _handle_add_hm(p, line)
          [] route = "add_tm" -> _handle_add_tm(p, line)
          [] route = "DEF" -> _handle_def(p, line)
          [] OTHER -> p

\* The parsers the loop of parse goes through on the lines ls: element
\* k + 1 is the parser after k lines; a parser that raised stays as it is.
RECURSIVE Parsers(_)
Parsers(ls) ==
    IF ls = <<>> THEN <<NewParser>>
    ELSE LET before == Parsers(SubSeq(ls, 1, Len(ls) - 1))
             p == before[Len(before)]
         IN  Append(before, IF Raised(p) THEN p ELSE LoopBody(p, ls[Len(ls)]))

_inject_unused_tmnum(p) ==
    IF "UNUSED_TMNUM" \in DOMAIN p.numeric_defines
    THEN LET value == p.numeric_defines["UNUSED_TMNUM"] IN
         IF value \in DOMAIN p.tmnum_by_value THEN p
         ELSE [p EXCEPT !.tmnum_by_value = Put(@, value, "UNUSED_TMNUM")]
    ELSE p

\* The loop of _build_tmnum_constants over the keys left, in ascending
\* order; None when an assignment raises IndexError.
RECURSIVE BuildLoop(_, _, _)
BuildLoop(by_value, keys, tmnum_constants) ==
    IF keys = {} THEN Some(tmnum_constants)
    ELSE LET index == Min(keys)
             at == ListIndex(tmnum_constants, index)
         IN  IF at = None THEN None
             ELSE BuildLoop(by_value, keys \ {index},
                            [tmnum_constants EXCEPT ![at[1]] = Some(by_value[index])])

\* _build_tmnum_constants with one position more than the highest slot needs
Longer_build_tmnum_constants(p) ==
    LET max_index == IF DOMAIN p.tmnum_by_value # {}
                     THEN Max(DOMAIN p.tmnum_by_value) ELSE 0
        tmnum_constants == [n \in 1..(max_index + 2) |-> None]
    IN  BuildLoop(p.tmnum_by_value, DOMAIN p.tmnum_by_value, tmnum_constants)

_build_tmnum_constants(p) ==
    LET max_index == IF DOMAIN p.tmnum_by_value # {}
                     THEN Max(DOMAIN p.tmnum_by_value) ELSE 0
        tmnum_constants == [n \in 1..(max_index + 1) |-> None]
    IN  BuildLoop(p.tmnum_by_value, DOMAIN p.tmnum_by_value, tmnum_constants)

-----------------------------------------------------------------------------
(* parse, one action per way through the body of its loop *)

MaxLines == 5
MaxRetained == 6
MaxEvaluated == 1

Limit ==
    IF vocab = ExpressionLines THEN Len(DefiningLines) + MaxEvaluated
    ELSE IF retain THEN MaxRetained
    ELSE MaxLines

Store(p) ==
    /\ constants' = p.constants
    /\ value_to_name' = p.value_to_name
    /\ aliases' = p.aliases
    /\ pending_aliases' = p.pending_aliases
    /\ machine_move_map' = p.machine_move_map
    /\ machine_map' = p.machine_map
    /\ tmnum_by_value' = p.tmnum_by_value
    /\ special_values' = p.special_values
    /\ numeric_defines' = p.numeric_defines
    /\ const_value' = p.const_value
    /\ inside_macro' = p.inside_macro
    /\ exc' = p.exc

\* One iteration of "for raw_line in self.lines" on a line that takes
\* `route` and leaves the parser as p.
Reads(raw, route, p) ==
    /\ pc = "parsing"
    /\ i < Limit
    /\ Route(Self, raw) = route
    /\ Store(p)
    /\ pc' = IF Raised(p) THEN "failed" ELSE "parsing"
    /\ raw_line' = raw
    /\ i' = i + 1
    /\ lines' = IF retain THEN Append(lines, raw) ELSE lines
    /\ UNCHANGED <<vocab, retain, result>>

ReadBlank == \E raw \in vocab : Reads(raw, "blank", Self)

ReadMacroToken ==
    \E raw \in vocab :
        Reads(raw, "macro", _handle_macro_tokens(Self, _strip_comments(raw)).p)

ReadInsideMacro == \E raw \in vocab : Reads(raw, "inside_macro", Self)

ReadConstDef == \E raw \in vocab : Reads(raw, "const_def", _handle_const_def(Self))

ReadConstNext ==
    \E raw \in vocab :
        Reads(raw, "const_next", _handle_const_next(Self, _strip_comments(raw)))

ReadConst ==
    \E raw \in vocab : Reads(raw, "const", _handle_const(Self, _strip_comments(raw)))

ReadAddHm ==
    \E raw \in vocab : Reads(raw, "add_hm", _handle_add_hm(Self, _strip_comments(raw)))

ReadAddTm ==
    \E raw \in vocab : Reads(raw, "add_tm", _handle_add_tm(Self, _strip_comments(raw)))

ReadAssert == \E raw \in vocab : Reads(raw, "ASSERT", Self)

ReadDef ==
    \E raw \in vocab : Reads(raw, "DEF", _handle_def(Self, _strip_comments(raw)))

ReadOther == \E raw \in vocab : Reads(raw, "none", Self)

\* The end of the lines: lines 51-62 of parse.
Return ==
    /\ pc = "parsing"
    /\ LET p1 == _inject_unused_tmnum(_resolve_pending_aliases(Self))
           tmnum_constants == _build_tmnum_constants(p1)
       IN  IF tmnum_constants = None
           THEN /\ Store(Raise(p1, "IndexError", "list assignment index out of range"))
                /\ pc' = "failed"
                /\ result' = None
           ELSE /\ Store(p1)
                /\ pc' = "done"
                /\ result' = Some([constants |-> p1.constants,
                                   aliases |-> p1.aliases,
                                   machine_move_map |-> p1.machine_move_map,
                                   tmnum_constants |-> tmnum_constants[1],
                                   machine_map |-> p1.machine_map,
                                   special_values |-> p1.special_values])
    /\ UNCHANGED <<vocab, retain, lines, i, raw_line>>

\* parse, whole, by a parser constructed on the lines ls: the tuple it
\* returns, or None when it raises.
Parse(ls) ==
    LET ps == Parsers(ls)
        p == ps[Len(ps)]
    IN  IF Raised(p) THEN None
        ELSE LET p1 == _inject_unused_tmnum(_resolve_pending_aliases(p))
                 tmnum_constants == _build_tmnum_constants(p1)
             IN  IF tmnum_constants = None THEN None
                 ELSE Some([constants |-> p1.constants,
                            aliases |-> p1.aliases,
                            machine_move_map |-> p1.machine_move_map,
                            tmnum_constants |-> tmnum_constants[1],
                            machine_map |-> p1.machine_map,
                            special_values |-> p1.special_values])

\* A parser constructed with the counter an earlier parse left behind
LeftoverConstruct(lineset, keep) ==
    /\ vocab = lineset
    /\ retain = keep
    /\ lines = <<>>
    /\ i = 0
    /\ raw_line = <<>>
    /\ constants = <<None>>
    /\ value_to_name = NewParser.value_to_name
    /\ aliases = NewParser.aliases
    /\ pending_aliases = NewParser.pending_aliases
    /\ machine_move_map = NewParser.machine_move_map
    /\ machine_map = NewParser.machine_map
    /\ tmnum_by_value = NewParser.tmnum_by_value
    /\ special_values = NewParser.special_values
    /\ numeric_defines = Put(EmptyDict, "const_value", 0)
    /\ const_value = Some(0)
    /\ inside_macro = NewParser.inside_macro
    /\ exc = NewParser.exc
    /\ pc = "parsing"
    /\ result = None

Construct(lineset, keep) ==
    /\ vocab = lineset
    /\ retain = keep
    /\ lines = <<>>
    /\ i = 0
    /\ raw_line = <<>>
    /\ constants = NewParser.constants
    /\ value_to_name = NewParser.value_to_name
    /\ aliases = NewParser.aliases
    /\ pending_aliases = NewParser.pending_aliases
    /\ machine_move_map = NewParser.machine_move_map
    /\ machine_map = NewParser.machine_map
    /\ tmnum_by_value = NewParser.tmnum_by_value
    /\ special_values = NewParser.special_values
    /\ numeric_defines = NewParser.numeric_defines
    /\ const_value = NewParser.const_value
    /\ inside_macro = NewParser.inside_macro
    /\ exc = NewParser.exc
    /\ pc = "parsing"
    /\ result = None

Init == Construct(TableLines, FALSE)

Next ==
    \/ ReadBlank
    \/ ReadMacroToken
    \/ ReadInsideMacro
    \/ ReadConstDef
    \/ ReadConstNext
    \/ ReadConst
    \/ ReadAddHm
    \/ ReadAddTm
    \/ ReadAssert
    \/ ReadDef
    \/ ReadOther
    \/ Return

Spec == Init /\ [][Next]_vars

\* Inputs made of table and alias directives alone, retained.
InitAliases == Construct(AliasLines, TRUE)

NextAliases ==
    \/ ReadConstDef
    \/ ReadConstNext
    \/ ReadConst
    \/ ReadDef
    \/ Return

SpecAliases == InitAliases /\ [][NextAliases]_vars

\* Inputs made of table, DEF and machine directives alone, retained.
InitMachines == Construct(MachineLines, TRUE)

NextMachines ==
    \/ ReadConstDef
    \/ ReadConst
    \/ ReadAddHm
    \/ ReadAddTm
    \/ ReadDef
    \/ Return

SpecMachines == InitMachines /\ [][NextMachines]_vars

\* Inputs made of the machine-value counter, add_tm and the marker of the
\* unused slot, retained.
InitSlots == Construct(SlotLines, TRUE)

NextSlots ==
    \/ ReadConstDef
    \/ ReadAddTm
    \/ ReadDef
    \/ Return

SpecSlots == InitSlots /\ [][NextSlots]_vars

\* Inputs made of const_def, const and macro blocks, retained.
InitBlocks == Construct(BlockLines, TRUE)

NextBlocks ==
    \/ ReadMacroToken
    \/ ReadInsideMacro
    \/ ReadConstDef
    \/ ReadConst
    \/ Return

SpecBlocks == InitBlocks /\ [][NextBlocks]_vars

\* _evaluate_expression on the expressions of const_next lines, by a parser
\* that has read DefiningLines.
InitEvaluate ==
    LET p1 == _handle_const_def(NewParser)
        p2 == _handle_const_next(p1, _strip_comments(DefiningLines[2]))
        p3 == _handle_const(p2, _strip_comments(DefiningLines[3]))
        p == _handle_const(p3, _strip_comments(DefiningLines[4]))
    IN  /\ vocab = ExpressionLines
        /\ retain = TRUE
        /\ lines = DefiningLines
        /\ i = Len(DefiningLines)
        /\ raw_line = DefiningLines[Len(DefiningLines)]
        /\ constants = p.constants
        /\ value_to_name = p.value_to_name
        /\ aliases = p.aliases
        /\ pending_aliases = p.pending_aliases
        /\ machine_move_map = p.machine_move_map
        /\ machine_map = p.machine_map
        /\ tmnum_by_value = p.tmnum_by_value
        /\ special_values = p.special_values
        /\ numeric_defines = p.numeric_defines
        /\ const_value = p.const_value
        /\ inside_macro = p.inside_macro
        /\ exc = p.exc
        /\ pc = "parsing"
        /\ result = None

NextEvaluate ==
    \/ ReadConstNext
    \/ Return

SpecEvaluate == InitEvaluate /\ [][NextEvaluate]_vars

\* Inputs made of const_def, const and DEF lines.
InitDefines == Construct(DefineLines, FALSE)

NextDefines ==
    \/ ReadConstDef
    \/ ReadConst
    \/ ReadDef
    \/ Return

SpecDefines == InitDefines /\ [][NextDefines]_vars

\* Inputs made of machine directives and the DEF lines of their defines.
InitMachinery == Construct(MachineryLines, FALSE)

NextMachinery ==
    \/ ReadConstDef
    \/ ReadAddHm
    \/ ReadAddTm
    \/ ReadDef
    \/ Return

SpecMachinery == InitMachinery /\ [][NextMachinery]_vars

-----------------------------------------------------------------------------
(* Claims *)

\* The line the step read, stripped of its comment; the step read a line
\* and no earlier line had raised.
Line == _strip_comments(raw_line')
ReadsLine == pc = "parsing" /\ i' = i + 1
ReadsRoute(route) == ReadsLine /\ Route(Self, raw_line') = route

ScenarioC ==
    <<DefEqu("ALIAS_LATER", Lit(5)), ConstDef, ConstNext(Lit(5)), Const("QUX")>>

\* C1 (as claimed): when parse returns from the lines DEF ALIAS_LATER EQU 5,
\* const_def, const_next 5, const QUX, the alias map it returns sends
\* ALIAS_LATER to QUX.
C1_DeferredAliasResolved ==
    (pc = "done" /\ lines = ScenarioC)
        => Get(result[1].aliases, "ALIAS_LATER") = Some("QUX")

\* The step read a DEF <name> EQU <expr> line whose expression has a value.
ReadsEqu ==
    /\ ReadsRoute("DEF")
    /\ "EQU" \in Range(Split(Line))
    /\ "=" \notin Range(Split(Line))
    /\ "+=" \notin Range(Split(Line))
    /\ _evaluate_expression(Self, SubSeq(Line, 4, Len(Line))).exc = None
EquName == Split(Line)[2]
EquValue == _evaluate_expression(Self, SubSeq(Line, 4, Len(Line))).value

\* C2 (as claimed): a DEF <name> EQU <expr> whose value has no canonical
\* name yet puts (name, value) in the pending queue, and a pending pair
\* leaves the queue only by entering the alias map with the name then
\* assigned at its index.
C2_PendingUntilAssigned ==
    [][/\ (ReadsEqu /\ Get(value_to_name, EquValue) = None)
           => <<EquName, EquValue>> \in Range(pending_aliases')
       /\ \A pair \in Range(pending_aliases) :
              \/ pair \in Range(pending_aliases')
              \/ /\ Get(value_to_name', pair[2]) # None
                 /\ Get(aliases', pair[1]) = Get(value_to_name', pair[2])]_vars

\* C3 (as claimed): no name occupies two indices of the symbol table.
C3_NamesUnique ==
    \A a, b \in DOMAIN constants :
        (constants[a] # None /\ constants[a] = constants[b]) => a = b

\* C4 (as claimed): every value of the alias map parse returns is a name
\* of the symbol sequence it returns.
C4_AliasSound ==
    pc = "done" =>
        \A a \in DOMAIN result[1].aliases :
            Some(result[1].aliases[a]) \in Range(result[1].constants)

\* In what follows `ps` is Parsers(lines): ps[k] is the parser before line
\* k and ps[k + 1] the parser after it.

\* Line k is an add_tm or add_hm that was processed without raising.
MachineAt(ps, k) ==
    /\ Route(ps[k], lines[k]) \in {"add_tm", "add_hm"}
    /\ ~Raised(ps[k + 1])

\* The machine-slot number the machine directive at line k recorded under
\* <move>_TMNUM.
Slot(ps, k) ==
    ps[k + 1].numeric_defines[Split(_strip_comments(lines[k]))[2] \o "_TMNUM"]

\* Lines a < b are machine directives with no machine directive between.
Successive(ps, a, b) ==
    /\ a < b
    /\ MachineAt(ps, a)
    /\ MachineAt(ps, b)
    /\ \A k \in (a + 1)..(b - 1) : ~MachineAt(ps, k)

\* Line k is a DEF or a const whose name is the machine-value counter.
NamesMachineCounter(ps, k) ==
    /\ Route(ps[k], lines[k]) \in {"DEF", "const"}
    /\ Split(_strip_comments(lines[k]))[2] = "__tmhm_value__"

\* C5 (as claimed): from one machine directive to the next the machine-slot
\* number recorded grows by exactly 1, whatever lies between them.
C5_SlotsGrowByOneAlways ==
    LET ps == Parsers(lines) IN
    \A a, b \in 1..Len(lines) :
        Successive(ps, a, b) => Slot(ps, b) = Slot(ps, a) + 1

\* C5 (amended): from one machine directive to the next the machine-slot
\* number recorded grows by exactly 1, TM or HM alike, when no line between
\* them is a DEF or a const of the machine-value counter.
C5_SlotsGrowByOne ==
    LET ps == Parsers(lines) IN
    \A a, b \in 1..Len(lines) :
        (/\ Successive(ps, a, b)
         /\ \A k \in (a + 1)..(b - 1) : ~NamesMachineCounter(ps, k))
            => Slot(ps, b) = Slot(ps, a) + 1

\* An add_tm and, after another line, an add_hm have been processed.
C5_Witness ==
    LET ps == Parsers(lines) IN
    \E a, b \in 1..Len(lines) :
        /\ Successive(ps, a, b)
        /\ b > a + 1
        /\ \A k \in (a + 1)..(b - 1) : ~NamesMachineCounter(ps, k)
        /\ Route(ps[a], lines[a]) = "add_tm"
        /\ Route(ps[b], lines[b]) = "add_hm"
        /\ Slot(ps, b) = Slot(ps, a) + 1

\* C6 (as claimed): an index of the symbol table that holds a name holds
\* the same name after every step.
C6_NamedIndexKept ==
    [][\A k \in DOMAIN constants :
           constants[k] # None
               => (k \in DOMAIN constants' /\ constants'[k] = constants[k])]_vars

\* The indices the directive `raw` passes to _ensure_length, or assigns a
\* name at, when parser p reads it.
Touched(p, raw) ==
    LET line == _strip_comments(raw)
        route == Route(p, raw)
    IN  IF route = "const_def" THEN {0}
        ELSE IF route = "const_next" /\ Len(line) >= 2
        THEN LET v == _evaluate_expression(p, Tail(line))
             IN  IF v.exc = None THEN {v.value} ELSE {}
        ELSE IF /\ route \in {"const", "add_hm", "add_tm"}
                /\ Len(line) >= 2
                /\ p.const_value # None
        THEN {p.const_value[1]}
        ELSE {}

\* C7 (as claimed): the length of the symbol sequence is one plus the
\* highest index ever passed to _ensure_length or assigned a name, and 0
\* when no index has been touched.
C7_LengthIsHighestPlusOne ==
    LET ps == Parsers(lines)
        touched == UNION {IF Raised(ps[k]) THEN {} ELSE Touched(ps[k], lines[k]) :
                              k \in 1..Len(lines)}
    IN  Len(constants) = IF touched = {} THEN 0 ELSE 1 + Max(touched)

UninitializedMessage(route) ==
    CASE route = "const" -> "const_def must appear before const declarations."
      [] route = "add_hm" -> "const_value is not initialized before add_hm."
      [] route = "add_tm" -> "const_value is not initialized before add_tm."

\* The step read a const, add_hm or add_tm with its operand.
ReadsDeclaration ==
    /\ ReadsLine
    /\ Route(Self, raw_line') \in {"const", "add_hm", "add_tm"}
    /\ Len(Line) >= 2

\* C8: a const, add_tm or add_hm read while the counter is unset fails the
\* parse with the uninitialized-counter error of its handler and changes
\* nothing of the parser, the symbol table included.
C8_UnsetCounterFails ==
    [][(ReadsDeclaration /\ const_value = None)
           => /\ pc' = "failed"
              /\ exc' = Some(Exception("ValueError",
                                       UninitializedMessage(Route(Self, raw_line'))))
              /\ constants' = constants
              /\ value_to_name' = value_to_name
              /\ numeric_defines' = numeric_defines
              /\ const_value' = None]_vars

\* A parse has failed at its first line, a const FOO, with that error.
C8_Witness ==
    /\ pc = "failed"
    /\ i = 1
    /\ raw_line = Const("FOO")
    /\ exc = Some(Exception("ValueError",
                            "const_def must appear before const declarations."))
    /\ constants = <<>>

\* The line is a directive keyword without its operand.
LacksOperand(line) ==
    Split(line) \in {<<"const">>, <<"const_next">>, <<"add_tm">>, <<"add_hm">>}

\* C9 (as claimed): outside a macro, a directive keyword without its
\* operand aborts the parse.
C9_LackingOperandAborts ==
    [][(ReadsLine /\ ~inside_macro /\ LacksOperand(Line)) => pc' = "failed"]_vars

\* The tokens a directive on the way `route` hands to
\* _evaluate_expression, in a sequence of at most one expression.
Evaluated(line, route) ==
    IF route = "const_next"
    THEN IF Len(line) >= 2 THEN <<Tail(line)>> ELSE <<>>
    ELSE IF route = "DEF"
    THEN LET parts == Range(Split(line))
         IN  IF "+=" \in parts THEN <<<<line[Len(line)]>>>>
             ELSE IF "=" \in parts \/ "EQU" \in parts
             THEN <<SubSeq(line, 4, Len(line))>>
             ELSE <<>>
    ELSE <<>>

\* The positions in the atoms of an expression of the terms that are no
\* literal and no name of a numeric define.
Unknown(atoms) ==
    {n \in 1..Len(atoms) :
        /\ atoms[n].k = "word"
        /\ atoms[n].s \notin DOMAIN numeric_defines}

\* C10: when the expression a directive evaluates has a term that is no
\* literal and no name the numeric defines hold at that moment, the parse
\* fails with the unknown-token error for the first such term, and nothing
\* of the parser changes.
C10_UnknownTermFails ==
    [][ReadsLine =>
          LET evaluated == Evaluated(Line, Route(Self, raw_line'))
              atoms == IF evaluated = <<>> THEN <<>> ELSE Flatten(evaluated[1])
              unknown == Unknown(atoms)
              token == atoms[Min(unknown)]
          IN  unknown # {}
                  => /\ pc' = "failed"
                     /\ exc' = Some(Exception("ValueError",
                            "Unknown token '" \o token.s \o "' in expression '"
                                \o JoinText(evaluated[1]) \o "'."))
                     /\ numeric_defines' = numeric_defines
                     /\ constants' = constants
                     /\ const_value' = const_value]_vars

\* A parse has failed at const_next FOO, read after const_def and before
\* any line defined FOO (the input has lines that define it).
C10_Witness ==
    /\ pc = "failed"
    /\ i = 2
    /\ raw_line = ConstNext(Sym("FOO"))
    /\ "FOO" \notin DOMAIN numeric_defines
    /\ Const("FOO") \in vocab
    /\ const_value = Some(0)
    /\ exc = Some(Exception("ValueError", "Unknown token 'FOO' in expression 'FOO'."))

\* C11: no step leaves a parse that has failed (no later line is read, no
\* result is returned, nothing is retried), and a step in which a directive
\* or the end of parse raises ends in a failed parse without a result.
C11_FailureAborts ==
    [][/\ pc = "parsing"
       /\ exc = None
       /\ result = None
       /\ (exc' # None <=> pc' = "failed")
       /\ (pc' = "failed" => result' = None)
       /\ (result' # None <=> pc' = "done")]_vars

\* A parse has failed at its third line, the table already written by the
\* lines before, with lines left to read and no result.
C11_Witness ==
    /\ pc = "failed"
    /\ i = 3
    /\ i < Limit
    /\ constants # <<>>
    /\ exc # None
    /\ result = None

\* C12: after a const_def, a run of k const lines with the names n_0 ..
\* n_(k-1) leaves these names at the indices 0 .. k-1 of the symbol
\* sequence, in this order, and the counter at k; the const of n_j
\* publishes j as the numeric define of n_j.
C12_ConstRunFillsTable ==
    LET ps == Parsers(lines) IN
    \A a \in 1..Len(lines) : \A b \in a..Len(lines) :
        (/\ Route(ps[a], lines[a]) = "const_def"
         /\ \A k \in (a + 1)..b : Route(ps[k], lines[k]) = "const")
            => LET names == [j \in 1..(b - a) |->
                                Split(_strip_comments(lines[a + j]))[2]]
                   q == ps[b + 1]
               IN  /\ ~Raised(q)
                   /\ Len(q.constants) >= b - a
                   /\ \A j \in 1..(b - a) :
                          /\ q.constants[j] = Some(names[j])
                          /\ Get(ps[a + j + 1].numeric_defines, names[j]) = Some(j - 1)
                   /\ q.const_value = Some(b - a)

\* Scenario A has been read: const_def, const FOO, const BAR.
C12_Witness ==
    /\ lines = <<ConstDef, Const("FOO"), Const("BAR")>>
    /\ constants = <<Some("FOO"), Some("BAR")>>
    /\ const_value = Some(2)
    /\ Get(numeric_defines, "FOO") = Some(0)
    /\ Get(numeric_defines, "BAR") = Some(1)

\* C13: a DEF a EQU n whose expression is the one bare token n, the value
\* of n holding the canonical name n, records a -> n in the alias map at
\* that very line, and leaves the rest of the alias map as it was.
C13_AliasOfNamedTarget ==
    [][(/\ ReadsEqu
        /\ Len(Line) = 4
        /\ Get(value_to_name, EquValue) = Some(TokenText(Line[4])))
           => /\ pc' = "parsing"
              /\ aliases' = Put(aliases, EquName, TokenText(Line[4]))
              /\ pending_aliases' = pending_aliases]_vars

\* Scenario B has been read: const_def, const FOO, DEF ALIAS_FOO EQU FOO.
C13_Witness ==
    /\ pc = "parsing"
    /\ i = 3
    /\ raw_line = DefEqu("ALIAS_FOO", Sym("FOO"))
    /\ constants = <<Some("FOO")>>
    /\ aliases = Put(EmptyDict, "ALIAS_FOO", "FOO")

\* C14: an add_hm that the parse gets through publishes, as the special
\* value HM_VALUE, the machine-value counter it found minus the NUM_TMS it
\* found, and numbers the slot label of the HM with this relative index.
C14_RelativeHmIndex ==
    [][(ReadsRoute("add_hm") /\ pc' = "parsing")
           => LET hm_index == numeric_defines["__tmhm_value__"]
                                  - numeric_defines["NUM_TMS"]
                  move_name == Split(Line)[2]
                  label == "HM" \o Format02d(hm_index) \o "_MOVE"
              IN  /\ Get(special_values', "HM_VALUE") = Some(hm_index)
                  /\ Get(numeric_defines', "HM_VALUE") = Some(hm_index)
                  /\ Get(machine_map', "HM_" \o move_name) = Some(label)
                  /\ Get(machine_move_map', label) = Some(move_name)]_vars

\* An add_hm FLASH has been read with NUM_TMS equal to the machine-value
\* counter: it published the index 0 and the label HM00_MOVE.
C14_Witness ==
    /\ pc = "parsing"
    /\ raw_line = AddHm("FLASH")
    /\ Get(numeric_defines, "NUM_TMS") = Some(1)
    /\ Get(numeric_defines, "__tmhm_value__") = Some(2)
    /\ Get(special_values, "HM_VALUE") = Some(0)
    /\ Get(machine_map, "HM_FLASH") = Some("HM00_MOVE")

MarkerAt(ps, k) ==
    /\ Route(ps[k], lines[k]) = "DEF"
    /\ Split(_strip_comments(lines[k]))[2] = "UNUSED_TMNUM"
    /\ ~Raised(ps[k + 1])

\* C17 (as claimed): when a parse returns, the machine-index array has an
\* entry at every value v the marker of the unused slot was defined with;
\* the entry is the name the last add_tm or add_hm recorded at slot v,
\* before the definition of the marker or after it, and the sentinel name
\* when none recorded v.
C17_MarkerYieldsToMachines ==
    pc = "done"
        => LET ps == Parsers(lines)
               tmnum_constants == result[1].tmnum_constants
           IN  \A k \in 1..Len(lines) :
                   MarkerAt(ps, k)
                       => LET v == ps[k + 1].numeric_defines["UNUSED_TMNUM"]
                              claims == {m \in 1..Len(lines) :
                                            MachineAt(ps, m) /\ Slot(ps, m) = v}
                              move_name ==
                                  Split(_strip_comments(lines[Max(claims)]))[2]
                          IN  /\ v + 1 \in DOMAIN tmnum_constants
                              /\ tmnum_constants[v + 1] =
                                     IF claims = {} THEN Some("UNUSED_TMNUM")
                                     ELSE Some(move_name \o "_TMNUM")

\* C18: while inside_macro is set, a line that starts neither with MACRO
\* nor with ENDM leaves every field of the parser as it was and does not
\* fail the parse.
C18_MacroBodyIgnored ==
    [][(/\ ReadsLine
        /\ inside_macro
        /\ ~StartsWith(Line, "MACRO")
        /\ ~StartsWith(Line, "ENDM"))
           => /\ pc' = "parsing"
              /\ UNCHANGED <<constants, value_to_name, aliases, pending_aliases,
                             machine_move_map, machine_map, tmnum_by_value,
                             special_values, numeric_defines, const_value,
                             inside_macro, exc>>]_vars

\* Inside a macro a const FOO has been read with the counter unset, which
\* fails a parse outside of one, and the parse goes on.
C18_Witness ==
    /\ pc = "parsing"
    /\ inside_macro
    /\ raw_line = Const("FOO")
    /\ const_value = None
    /\ constants = <<>>

\* The last of the lines ls that starts with MACRO or ENDM starts with
\* MACRO: a macro block is open by the flag, however many were begun.
OpenByLastToken(ls) ==
    LET tokens == {k \in 1..Len(ls) :
                      \/ StartsWith(_strip_comments(ls[k]), "MACRO")
                      \/ StartsWith(_strip_comments(ls[k]), "ENDM")}
    IN  tokens # {} /\ StartsWith(_strip_comments(ls[Max(tokens)]), "MACRO")

\* C19: before each line the flag is set exactly when the last macro line
\* read is a macro-begin line, whatever the number of macro-begin lines
\* still without a macro-end line; a const_def or const read with the flag
\* clear by this rule is interpreted: it sets the counter to 0, or writes
\* its name at the counter and advances it, or fails for want of a counter.
C19_FlagNotNestingDepth ==
    LET ps == Parsers(lines) IN
    \A k \in 1..Len(lines) :
        LET open == OpenByLastToken(SubSeq(lines, 1, k - 1))
            before == ps[k]
            after == ps[k + 1]
        IN  /\ before.inside_macro = open
            /\ (~open /\ lines[k] = ConstDef) => after.const_value = Some(0)
            /\ (~open /\ lines[k] \in {Const("FOO"), Const("BAR")})
                   => IF before.const_value = None THEN Raised(after)
                      ELSE /\ after.const_value = Some(before.const_value[1] + 1)
                           /\ after.constants[before.const_value[1] + 1]
                                  = Some(Split(lines[k])[2])

\* Two macro-begin lines and one macro-end line have been read, and the
\* const_def and const FOO after them have written the table.
C19_Witness ==
    /\ lines = <<MacroBegin, MacroBegin, MacroEnd, ConstDef, Const("FOO")>>
    /\ ~inside_macro
    /\ constants = <<Some("FOO")>>
    /\ const_value = Some(1)

\* The value of a term: hexadecimal after '$', decimal for digits, and the
\* current numeric define for a name.
TermValue(atom) ==
    CASE atom.k = "hex" -> IntOf(atom.d, 16)
      [] atom.k = "dec" -> IntOf(atom.d, 10)
      [] OTHER -> numeric_defines[atom.s]

\* The sum of the terms among the first n atoms, each subtracted when the
\* atom before it is '-' and added otherwise.
RECURSIVE SignedSum(_, _)
SignedSum(atoms, n) ==
    IF n = 0 THEN 0
    ELSE SignedSum(atoms, n - 1)
             + (IF atoms[n].k = "op" THEN 0
                ELSE IF n > 1 /\ atoms[n - 1] = Minus THEN 0 - TermValue(atoms[n])
                ELSE TermValue(atoms[n]))

\* C20: the value _evaluate_expression gives for an expression of literals
\* and defined names separated by '+' and '-', here the value a const_next
\* sets the counter to, is the signed sum of its terms from left to right.
C20_LeftToRightSignedSum ==
    [][(/\ ReadsRoute("const_next")
        /\ Len(Line) >= 2
        /\ Unknown(Flatten(Tail(Line))) = {})
           => LET atoms == Flatten(Tail(Line))
              IN  /\ pc' = "parsing"
                  /\ const_value' = Some(SignedSum(atoms, Len(atoms)))]_vars

\* const_next BAR - $10+2 has been read with BAR defined as 4: the counter
\* is 4 - 16 + 2.
C20_Witness ==
    /\ raw_line = ConstNext(<<<<Word("BAR")>>, <<Minus>>,
                              <<Hex(<<1, 0>>), Plus, Dec(<<2>>)>>>>)
    /\ Get(numeric_defines, "BAR") = Some(4)
    /\ const_value = Some(0 - 10)

\* The line read before this step was dispatched as a const_next.
AfterConstNext ==
    /\ i >= 1
    /\ ~inside_macro
    /\ Directive(_strip_comments(raw_line)) = "const_next"

\* C21 (as claimed): a const_next whose expression evaluates to v sets the
\* counter to v and leaves the symbol table addressable at index v: the
\* entries it had are unchanged, its length has not decreased, and what was
\* added is no-name placeholders; the const read next assigns its name at
\* index v.
C21_ConstNextLandsAtValue ==
    [][/\ (ReadsRoute("const_next") /\ Len(Line) >= 2 /\ pc' = "parsing")
              => LET v == _evaluate_expression(Self, Tail(Line)).value
                 IN  /\ const_value' = Some(v)
                     /\ 0 <= v
                     /\ v < Len(constants')
                     /\ Len(constants') >= Len(constants)
                     /\ SubSeq(constants', 1, Len(constants)) = constants
                     /\ \A k \in (Len(constants) + 1)..Len(constants') :
                            constants'[k] = None
       /\ (AfterConstNext /\ ReadsRoute("const") /\ Len(Line) >= 2
               /\ pc' = "parsing")
              => LET v == const_value[1]
                 IN  /\ v + 1 \in DOMAIN constants'
                     /\ constants'[v + 1] = Some(Split(Line)[2])]_vars

\* C28 (as claimed): the counter is unset or a non-negative integer.
C28_CounterNonNegative ==
    const_value = None \/ const_value[1] >= 0

\* The leading token of the line is none of the dispatched directives, or
\* it is a const_def followed by an argument.
Undispatched(line) ==
    LET tokens == Split(line)
    IN  \/ tokens[1] \notin {"const_def", "const", "const_next",
                             "add_tm", "add_hm", "DEF"}
        \/ tokens[1] = "const_def" /\ Len(tokens) >= 2

\* C26 (as claimed): a line whose leading token is none of the dispatched
\* directives is consumed with no effect: the parse goes on, and the
\* counter, the symbol table, the alias maps, the numeric defines, the
\* special values and the machine maps are unchanged.
C26_UndispatchedHasNoEffect ==
    [][(ReadsLine /\ Line # <<>> /\ Undispatched(Line))
           => /\ pc' = "parsing"
              /\ const_value' = const_value
              /\ constants' = constants
              /\ value_to_name' = value_to_name
              /\ aliases' = aliases
              /\ pending_aliases' = pending_aliases
              /\ numeric_defines' = numeric_defines
              /\ special_values' = special_values
              /\ machine_move_map' = machine_move_map
              /\ machine_map' = machine_map
              /\ tmnum_by_value' = tmnum_by_value]_vars

\* The step read a DEF <name> += <expr> for a defined name and went on.
ReadsIncrement ==
    /\ ReadsRoute("DEF")
    /\ Len(Line) >= 4
    /\ "+=" \in Range(Split(Line))
    /\ Split(Line)[2] \in DOMAIN numeric_defines
    /\ pc' = "parsing"

\* C22 (as claimed): after DEF <name> += <expr> the numeric define of the
\* name is its previous value plus the value of the whole expression, the
\* signed sum of all its terms.
C22_IncrementByWholeExpression ==
    [][ReadsIncrement
           => LET name == Split(Line)[2]
                  atoms == Flatten(SubSeq(Line, 4, Len(Line)))
              IN  numeric_defines'[name]
                      = numeric_defines[name] + SignedSum(atoms, Len(atoms))]_vars

\* The step read a DEF <name> = <expr> and went on.
ReadsSet ==
    /\ ReadsRoute("DEF")
    /\ Len(Line) >= 4
    /\ "+=" \notin Range(Split(Line))
    /\ "=" \in Range(Split(Line))
    /\ pc' = "parsing"

SetName == Split(Line)[2]
SetValue == _evaluate_expression(Self, SubSeq(Line, 4, Len(Line))).value

\* C23 (as claimed): after DEF <name> = <expr>, for every name, the numeric
\* define and the special value of the name are the value of the
\* expression, and the marker of the unused slot is recorded as the
\* unused-slot index besides.
C23_SetAlwaysSpecial ==
    [][ReadsSet
           => /\ Get(numeric_defines', SetName) = Some(SetValue)
              /\ Get(special_values', SetName) = Some(SetValue)
              /\ SetName = "UNUSED_TMNUM"
                     => Get(tmnum_by_value', SetValue) = Some(SetName)]_vars

\* C23 (amended): after DEF <name> = <expr> the numeric define of the name
\* is the value of the expression; the special value of the name is that
\* value too unless the name ends in _TMNUM, and then the special values
\* are left as they were; the marker of the unused slot is recorded as the
\* unused-slot index.
C23_SetSpecialUnlessTmnum ==
    [][ReadsSet
           => /\ Get(numeric_defines', SetName) = Some(SetValue)
              /\ IF EndsWith(SetName, "_TMNUM")
                 THEN special_values' = special_values
                 ELSE Get(special_values', SetName) = Some(SetValue)
              /\ SetName = "UNUSED_TMNUM"
                     => Get(tmnum_by_value', SetValue) = Some(SetName)]_vars

\* DEF UNUSED_TMNUM = 1 has been read after a DEF FOO = 5: the marker is a
\* numeric define and the unused-slot index, and FOO alone is special.
C23_Witness ==
    /\ pc = "parsing"
    /\ raw_line = DefSet("UNUSED_TMNUM", Lit(1))
    /\ Get(numeric_defines, "UNUSED_TMNUM") = Some(1)
    /\ Get(tmnum_by_value, 1) = Some("UNUSED_TMNUM")
    /\ DOMAIN special_values = {"FOO"}
    /\ special_values["FOO"] = 5

\* C27 (as claimed): whenever the counter is set, the numeric define named
\* const_value equals it.
C27_DefineMirrorsCounter ==
    const_value # None => Get(numeric_defines, "const_value") = const_value

\* C30 (as claimed): every entry of the special values equals the numeric
\* define of the same name.
C30_SpecialValuesCurrent ==
    \A name \in DOMAIN special_values :
        Get(numeric_defines, name) = Some(special_values[name])

\* The step read an add_tm or add_hm with its move name.
ReadsMachine ==
    /\ ReadsLine
    /\ Route(Self, raw_line') \in {"add_tm", "add_hm"}
    /\ Len(Line) >= 2

\* C24: an add_tm or add_hm for move M read when the machine-value counter
\* is c records M_TMNUM in the by-number lookup at index c, the absolute
\* counter for an HM too, and leaves the machine-value counter at c + 1,
\* in the numeric defines and in the special values.
C24_SlotAtAbsoluteCounter ==
    [][(ReadsMachine /\ pc' = "parsing")
           => LET c == numeric_defines["__tmhm_value__"]
                  M == Split(Line)[2]
              IN  /\ Get(tmnum_by_value', c) = Some(M \o "_TMNUM")
                  /\ Get(numeric_defines', "__tmhm_value__") = Some(c + 1)
                  /\ Get(special_values', "__tmhm_value__") = Some(c + 1)]_vars

\* add_hm FLASH has been read with NUM_TMS = 1 and the machine-value
\* counter at 2: FLASH_TMNUM is at slot 2, not at the HM index 1, and the
\* counter is 3.
C24_Witness ==
    /\ pc = "parsing"
    /\ raw_line = AddHm("FLASH")
    /\ Get(numeric_defines, "NUM_TMS") = Some(1)
    /\ Get(special_values, "HM_VALUE") = Some(1)
    /\ Get(tmnum_by_value, 1) = Some("PSYCHIC_TMNUM")
    /\ Get(tmnum_by_value, 2) = Some("FLASH_TMNUM")
    /\ Get(special_values, "__tmhm_value__") = Some(3)

\* The names of the numeric defines the directive on `line` reads on the
\* way `route`, besides those of its expression.
Referenced(line, route) ==
    IF Len(line) < 2 THEN {}
    ELSE IF route = "add_tm" THEN {"__tmhm_value__"}
    ELSE IF route = "add_hm" THEN {"NUM_TMS", "__tmhm_value__"}
    ELSE IF route = "DEF" /\ "+=" \in Range(Split(line)) THEN {Split(line)[2]}
    ELSE {}

\* C25: an add_tm or add_hm read before the machine-value counter is
\* defined, an add_hm read before NUM_TMS is defined, and a DEF <name> +=
\* read before <name> is defined each fail the parse at that line; a
\* failed parse stays failed and has no output.
C25_UndefinedReferenceAborts ==
    [][/\ (ReadsLine
              /\ ~(Referenced(Line, Route(Self, raw_line'))
                       \subseteq DOMAIN numeric_defines))
             => /\ pc' = "failed"
                /\ exc' # None
                /\ result' = None
       /\ pc = "failed" => (pc' = "failed" /\ result' = None)]_vars

\* An add_hm FLASH read with the counter and the machine-value counter
\* set, and NUM_TMS undefined, has failed the parse with a KeyError.
C25_Witness ==
    /\ pc = "failed"
    /\ raw_line = AddHm("FLASH")
    /\ const_value # None
    /\ "__tmhm_value__" \in DOMAIN numeric_defines
    /\ exc = Some(Exception("KeyError", "NUM_TMS"))
    /\ result = None

\* C29 (as claimed): at the end of a successful parse the item-to-machine
\* map sends every item symbol of an add_tm M or add_hm M to a key of the
\* machine-to-move map, under which the move is M.
C29_ItemLeadsToItsMove ==
    pc = "done"
        => \A X \in DOMAIN machine_map :
               /\ machine_map[X] \in DOMAIN machine_move_map
               /\ X \in {"TM_" \o machine_move_map[machine_map[X]],
                         "HM_" \o machine_move_map[machine_map[X]]}

====
